---- MODULE Spec2Model ----
(***************************************************************************)
(* Model of context_Specific_Content_Classifier.py: the essay competition  *)
(* pipeline (classification with keyword fallback, rubric scoring with     *)
(* defaulting, zone ranking, cross-zone comparison).                       *)
(*                                                                         *)
(* Conventions                                                             *)
(*  - A text is a sequence of pieces [w |-> word, n |-> characters kept].  *)
(*    A whole word keeps WordLen(w) characters (its trailing blank         *)
(*    included); a slice text[:k] may keep only part of its last word.     *)
(*  - A float that the code computes as sum/len is held in tenths          *)
(*    (8.4 is 84); every value the code can produce (sum/5) is exact.      *)
(*  - A reply of the inference service is [kind, output]: kind             *)
(*    says how the HTTP call ended, output is the completion text as a     *)
(*    sequence of lines [label, value].                                    *)
(*  - An optional value (Python None) is the empty sequence, a present     *)
(*    value v is <<v>>.                                                    *)
(***************************************************************************)
EXTENDS Integers, Sequences, FiniteSets, TLC

VARIABLES
    \* --- a run of the program (main) ---
    mode,                     \* "single" | "multi": the choice read by main
    folders,                  \* the folders given: <<[exists, files]>>, one per zone
    pc,                       \* where the run stands
    zone,                     \* the zone (folder) being processed, 1..Len(folders)
    idx,                      \* position of the classification / scoring loop
    independence_day_essays,  \* the current folder's essays classified Yes
    wrong_topic_essays,       \* the current folder's essays classified No
    successful_analyses,      \* the current folder's scored essays
    competition_results,      \* per zone: <<>> or <<the report written for it>>
    returned,                 \* per zone: <<>> or <<what processing the folder returned>>
    zone_names,               \* multi-zone: names of the zones processed
    all_zone_essays,          \* multi-zone: each processed zone's top essays
    grand_prompt,             \* <<>> or <<the candidates listed in the comparison prompt>>
    grand_report,             \* <<>> or <<the grand result written>>
    calls,                    \* every request sent to the service, in order
    paced,                    \* time.sleep(1) has run since the last generate call
    last,                     \* the latest request: its kind and how it ended
    \* --- one function applied to one input ---
    unitPc,     \* "off" | "ready" | "done"
    unitEssay,  \* the essay handed to the function
    unitReply,  \* the service's reply
    unitRet     \* what the function returned

runVars == <<mode, folders, pc, zone, idx, independence_day_essays, wrong_topic_essays,
             successful_analyses, competition_results, returned, zone_names,
             all_zone_essays, grand_prompt, grand_report, calls, paced, last>>
unitVars == <<unitPc, unitEssay, unitReply, unitRet>>
vars == <<runVars, unitVars>>

-----------------------------------------------------------------------------
(* Generic helpers                                                          *)

Min(a, b) == IF a <= b THEN a ELSE b
Max(a, b) == IF a >= b THEN a ELSE b

RECURSIVE SumSeq(_)
SumSeq(s) == IF s = <<>> THEN 0 ELSE Head(s) + SumSeq(Tail(s))

SeqsUpTo(S, n) == UNION {[1..k -> S] : k \in 0..n}

-----------------------------------------------------------------------------
(* Texts                                                                    *)

\* Bound: the longest essay, in words, of a single-function run.
MaxEssayWords == 3

\* str.lower() on the words the model uses
Lower(w) ==
    CASE w = "NEHRU" -> "nehru"
      [] w = "Partition" -> "partition"
      [] w = "Cricket" -> "cricket"
      [] OTHER -> w

\* characters of a word, its trailing blank included
WordLen(w) ==
    CASE Lower(w) = "filler" -> 797      \* a stretch of text holding no keyword
      [] Lower(w) = "gandhi" -> 7
      [] Lower(w) = "nehru" -> 6
      [] Lower(w) = "partition" -> 10
      [] Lower(w) = "cricket" -> 8
      [] Lower(w) = "facebook" -> 9
      [] OTHER -> 1

\* characters of the keyword itself (the word without its trailing blank)
KeywordLen(w) == WordLen(w) - 1

Words == {"filler", "gandhi", "NEHRU", "Partition", "Cricket", "facebook"}

Text(ws) == [i \in 1..Len(ws) |-> [w |-> ws[i], n |-> WordLen(ws[i])]]

TextLen(t) == SumSeq([i \in 1..Len(t) |-> t[i].n])

\* text[:k]
RECURSIVE Slice(_, _)
Slice(t, k) ==
    IF t = <<>> \/ k <= 0 THEN <<>>
    ELSE IF Head(t).n <= k
         THEN <<Head(t)>> \o Slice(Tail(t), k - Head(t).n)
         ELSE <<[w |-> Head(t).w, n |-> k]>>

\* text.lower()
LowerText(t) == [i \in 1..Len(t) |-> [w |-> Lower(t[i].w), n |-> t[i].n]]

\* keyword in text   (substring test on an already lower-cased text)
KeywordIn(keyword, t) ==
    \E i \in 1..Len(t) : t[i].w = keyword /\ t[i].n >= KeywordLen(t[i].w)

-----------------------------------------------------------------------------
(* The inference service's replies                                          *)

TransportKinds == {"conn_error", "timeout"}
FailureKinds == TransportKinds \cup {"http_error", "bad_json"}
ReplyKinds == FailureKinds \cup {"no_field", "ok"}

Reply(kind, output) == [kind |-> kind, output |-> output]

\* the message of a failed call: "HTTP <status>" for a status other than 200,
\* str(e) for an exception (whatever the exception, one text in the model)
FailureMessage(kind) == IF kind = "http_error" THEN "HTTP 500" ELSE "str(e)"

Line(label, value) == [label |-> label, value |-> value]

\* response.json().get("response", "").strip()
CompletionText(reply) == IF reply.kind = "ok" THEN reply.output ELSE <<>>

\* index of the first line of output that matches, 0 when none; matches[i]
\* says whether line i does (re.search scans left to right and returns the
\* first match)
FirstMatch(matches) ==
    IF \E i \in 1..Len(matches) : matches[i]
    THEN CHOOSE i \in 1..Len(matches) :
            matches[i] /\ \A j \in 1..(i - 1) : ~matches[j]
    ELSE 0

\* label compared case-insensitively (re.IGNORECASE)
UpperLabel(l) ==
    CASE l = "classification" -> "CLASSIFICATION"
      [] l = "score" -> "SCORE"
      [] l = "writing" -> "WRITING"
      [] l = "Relevance" -> "RELEVANCE"
      [] l = "Content" -> "CONTENT"
      [] l = "Writing" -> "WRITING"
      [] l = "Original" -> "ORIGINAL"
      [] l = "Impact" -> "IMPACT"
      [] l = "Strengths" -> "STRENGTHS"
      [] l = "Topics" -> "TOPICS"
      [] OTHER -> l

-----------------------------------------------------------------------------
(* ollama_classify_score                                                    *)

\* the essay is cut to this many characters in the prompt
ClassifyPromptChars == 800

independence_keywords ==
    {"independence day", "august 15", "15th august", "freedom struggle",
     "british rule", "gandhi", "nehru", "freedom fighter", "patriotic",
     "tiranga", "tricolor", "national flag", "red fort", "partition"}

other_keywords ==
    {"social media", "facebook", "instagram", "environmental protection",
     "climate change", "career goals", "software engineer", "online education",
     "covid-19", "sports importance", "basketball", "cricket", "wings of fire"}

\* r'CLASSIFICATION:\s*(YES|NO)' with re.IGNORECASE: the word captured on a
\* line, "" when the line does not match
ClassificationGroup(line) ==
    IF UpperLabel(line.label) # "CLASSIFICATION" THEN ""
    ELSE CASE line.value = "YES" -> "YES"
           [] line.value = "yes" -> "yes"
           [] line.value = "NO" -> "NO"
           [] line.value = "YESTERDAY" -> "YES"
           [] OTHER -> ""          \* "[YES]", "MAYBE", ...

ClassificationMatches(line) == ClassificationGroup(line) # ""

\* group(1).upper() == "YES"
IsYes(group) == group \in {"YES", "yes"}

DeclaredClassification(output) ==
    LET i == FirstMatch([k \in 1..Len(output) |-> ClassificationMatches(output[k])])
    IN IF i # 0 /\ IsYes(ClassificationGroup(output[i])) THEN "Yes" ELSE "No"

independence_score(essay_lower) ==
    Cardinality({k \in independence_keywords : KeywordIn(k, essay_lower)})

other_score(essay_lower) ==
    Cardinality({k \in other_keywords : KeywordIn(k, essay_lower)})

\* Faulty variant: the fallback scans only the part of the essay the prompt shows
TruncatedFallbackText(essay) == LowerText(Slice(essay, ClassifyPromptChars))

\* the text the keyword fallback scans: the whole essay, lower-cased
FallbackText(essay) == LowerText(essay)

FallbackFires(essay) ==
    LET essay_lower == FallbackText(essay)
    IN independence_score(essay_lower) > other_score(essay_lower)
       /\ independence_score(essay_lower) >= 2

Digits == {"0", "1", "2", "3", "4", "5", "6", "7", "8", "9"}
DigitVal(c) ==
    CASE c = "0" -> 0 [] c = "1" -> 1 [] c = "2" -> 2 [] c = "3" -> 3
      [] c = "4" -> 4 [] c = "5" -> 5 [] c = "6" -> 6 [] c = "7" -> 7
      [] c = "8" -> 8 [] c = "9" -> 9

\* r'SCORE:\s*([1-5](?:\.[0-9])?)' with re.IGNORECASE; the value of a SCORE
\* line is its sequence of characters
ScoreMatches(line) ==
    /\ UpperLabel(line.label) = "SCORE"
    /\ Len(line.value) >= 1
    /\ line.value[1] \in {"1", "2", "3", "4", "5"}

\* float(group(1)), in tenths
ScoreGroup(line) ==
    LET v == line.value
    IN IF Len(v) >= 3 /\ v[2] = "." /\ v[3] \in Digits
       THEN 10 * DigitVal(v[1]) + DigitVal(v[3])
       ELSE 10 * DigitVal(v[1])

ParsedScore(output) ==
    LET i == FirstMatch([k \in 1..Len(output) |-> ScoreMatches(output[k])])
    IN IF i # 0 THEN ScoreGroup(output[i]) ELSE 30

\* the essay part of the prompt
ClassifyPrompt(essay) == Slice(essay, ClassifyPromptChars)

ClassifyReturn(classification, score, output, message) ==
    [classification |-> classification, score |-> score,
     output |-> output, message |-> message]

\* Faulty variant: a call that failed counts as a verdict of Yes
ClassifyFailureAsYes(essay, reply) ==
    IF reply.kind \in FailureKinds
    THEN ClassifyReturn("Yes", <<30>>, <<>>, "")
    ELSE LET output == CompletionText(reply)
             declared == DeclaredClassification(output)
         IN ClassifyReturn(IF declared = "No" /\ FallbackFires(essay) THEN "Yes" ELSE declared,
                           <<ParsedScore(output)>>, output, "")

ollama_classify_score(essay, reply) ==
    CASE reply.kind = "http_error" ->
            ClassifyReturn("Error", <<>>, <<>>, FailureMessage(reply.kind))
      [] reply.kind \in {"conn_error", "timeout", "bad_json"} ->
            ClassifyReturn("Error", <<>>, <<>>, FailureMessage(reply.kind))
      [] OTHER ->
            LET output == CompletionText(reply)
                declared == DeclaredClassification(output)
                classification ==
                    IF declared = "No" /\ FallbackFires(essay)
                    THEN "Yes" ELSE declared
            IN ClassifyReturn(classification, <<ParsedScore(output)>>, output, "")

-----------------------------------------------------------------------------
(* quick_essay_analysis                                                     *)

\* the essay is cut to this many characters in the scoring prompt
AnalysisPromptChars == 1000

RatingKeys == <<"relevance", "content", "writing", "original", "impact">>

\* the label each pattern looks for, upper-cased (re.IGNORECASE)
PatternLabel(key) ==
    CASE key = "relevance" -> "RELEVANCE"
      [] key = "content" -> "CONTENT"
      [] key = "writing" -> "WRITING"
      [] key = "original" -> "ORIGINAL"
      [] key = "impact" -> "IMPACT"

\* r'<Label>:\s*(\d+)': the value of a rating line is <<n>> when digits
\* follow the label and <<>> when something else does
RatingMatches(key, line) ==
    UpperLabel(line.label) = PatternLabel(key) /\ Len(line.value) = 1

\* Faulty variant: the parsed value is kept as it is
UnclampedRating(score) == score

\* min(max(score, 1), 10)
ClampRating(score) == Min(Max(score, 1), 10)

\* what one pass of the loop over patterns leaves in analysis[key]
RatingFor(key, output) ==
    LET i == FirstMatch([k \in 1..Len(output) |-> RatingMatches(key, output[k])])
    IN IF i # 0 THEN ClampRating(output[i].value[1]) ELSE 6

\* the list `scores` after the loop
RatingScores(output) == [k \in 1..Len(RatingKeys) |-> RatingFor(RatingKeys[k], output)]

\* sum(scores) / len(scores), in tenths
OverallScore(scores) == (SumSeq(scores) * 10) \div Len(scores)

\* Faulty variant: every threshold is exclusive
AssignGradeAbove(score) ==
    IF score > 90 THEN "A+"
    ELSE IF score > 80 THEN "A"
    ELSE IF score > 70 THEN "B+"
    ELSE IF score > 60 THEN "B"
    ELSE IF score > 50 THEN "C+"
    ELSE "C"

\* the if/elif chain over analysis['overall_score'] (in tenths)
AssignGrade(score) ==
    IF score >= 90 THEN "A+"
    ELSE IF score >= 80 THEN "A"
    ELSE IF score >= 70 THEN "B+"
    ELSE IF score >= 60 THEN "B"
    ELSE IF score >= 50 THEN "C+"
    ELSE "C"

StrengthsMatches(line) == UpperLabel(line.label) = "STRENGTHS"
TopicsMatches(line) == UpperLabel(line.label) = "TOPICS"

\* the Strengths: / Topics: captures, with their placeholders
SectionText(output, matches, placeholder) ==
    LET i == FirstMatch(matches)
    IN IF i # 0 THEN output[i].value ELSE placeholder

AnalysisPrompt(essay) ==
    IF TextLen(essay) > AnalysisPromptChars
    THEN Slice(essay, AnalysisPromptChars) ELSE essay

ParseAnalysis(output) ==
    LET scores == RatingScores(output)
        overall == OverallScore(scores)
    IN [relevance |-> scores[1], content |-> scores[2], writing |-> scores[3],
        original |-> scores[4], impact |-> scores[5],
        overall_score |-> overall,
        strengths |-> SectionText(output, [k \in 1..Len(output) |-> StrengthsMatches(output[k])],
                                 "Good Independence Day essay"),
        topics |-> SectionText(output, [k \in 1..Len(output) |-> TopicsMatches(output[k])],
                              "Independence Day themes"),
        grade |-> AssignGrade(overall)]

\* returns <<analysis>>, or <<>> for None
quick_essay_analysis(essay, reply) ==
    IF reply.kind \in FailureKinds
    THEN <<>>
    ELSE <<ParseAnalysis(CompletionText(reply))>>

\* the dictionary the caller puts in place of a failed analysis
DefaultAnalysis ==
    [relevance |-> 6, content |-> 6, writing |-> 6, original |-> 6, impact |-> 6,
     overall_score |-> 60,
     strengths |-> "Independence Day themed essay",
     topics |-> "Independence Day celebrations",
     grade |-> "B"]

\* Faulty variant: an essay whose analysis failed is left out
AnalyseIntoDropping(analyses, essay_data, reply) ==
    LET analysis == quick_essay_analysis(essay_data.content, reply)
    IN IF analysis # <<>>
       THEN Append(analyses,
                   [filename |-> essay_data.filename, content |-> essay_data.content,
                    analysis |-> analysis[1]])
       ELSE analyses

\* the body of the scoring loop for one essay: successful_analyses after it
AnalyseInto(analyses, essay_data, reply) ==
    LET analysis == quick_essay_analysis(essay_data.content, reply)
    IN IF analysis # <<>>
       THEN Append(analyses,
                   [filename |-> essay_data.filename, content |-> essay_data.content,
                    analysis |-> analysis[1]])
       ELSE Append(analyses,
                   [filename |-> essay_data.filename, content |-> essay_data.content,
                    analysis |-> DefaultAnalysis])

-----------------------------------------------------------------------------
(* test_ollama_connection, simple_comparative_ranking                       *)

\* True iff the probe answers 200 (and its body parses)
test_ollama_connection(reply) == reply.kind \in {"ok", "no_field"}

\* the text simple_comparative_ranking returns
simple_comparative_ranking(essays_data, reply) ==
    CASE reply.kind = "http_error" -> "Ranking analysis failed - timeout or error"
      [] reply.kind \in {"conn_error", "timeout", "bad_json"} ->
            "Ranking error: " \o FailureMessage(reply.kind)
      [] reply.kind = "no_field" -> ""
      [] OTHER -> "ranking narrative"

-----------------------------------------------------------------------------
(* sorted(..., key=overall_score, reverse=True)                             *)

\* Faulty variant: x goes ahead of the elements whose key equals its own
InsertByScoreAhead(sorted, x) ==
    LET ahead == {k \in 1..Len(sorted) :
                    sorted[k].analysis.overall_score > x.analysis.overall_score}
        n == Cardinality(ahead)
    IN SubSeq(sorted, 1, n) \o <<x>> \o SubSeq(sorted, n + 1, Len(sorted))

\* where a stable descending sort puts x among the already sorted: behind
\* every element whose key is greater than or equal to its own
InsertByScore(sorted, x) ==
    LET ahead == {k \in 1..Len(sorted) :
                    sorted[k].analysis.overall_score >= x.analysis.overall_score}
        n == Cardinality(ahead)
    IN SubSeq(sorted, 1, n) \o <<x>> \o SubSeq(sorted, n + 1, Len(sorted))

RECURSIVE SortedByScore(_)
SortedByScore(essays) ==
    IF essays = <<>> THEN <<>>
    ELSE InsertByScore(SortedByScore(SubSeq(essays, 1, Len(essays) - 1)),
                       essays[Len(essays)])

-----------------------------------------------------------------------------
(* process_single_zone_for_multi, compare_zones_top_essays                  *)

\* how many essays of a zone go to the grand comparison
TopEssays == 3

\* characters of an essay shown in the comparison prompt
PreviewChars == 400

TopEntry(essay, zone_name, rank) ==
    [filename |-> essay.filename, zone |-> zone_name, content |-> essay.content,
     overall_score |-> essay.analysis.overall_score, grade |-> essay.analysis.grade,
     strengths |-> essay.analysis.strengths, analysis |-> essay.analysis,
     zone_rank |-> rank]

\* Faulty variant: the first essays in the order they were scored, not re-sorted
TopEssaysAsScored(analyses, zone_name) ==
    [k \in 1..Min(TopEssays, Len(analyses)) |-> TopEntry(analyses[k], zone_name, k)]

\* what process_single_zone_for_multi returns from the folder's result
process_single_zone_for_multi(analyses, zone_name) ==
    IF analyses = <<>> THEN <<>>
    ELSE LET sorted_essays == SortedByScore(analyses)
         IN [k \in 1..Min(TopEssays, Len(sorted_essays)) |->
                TopEntry(sorted_essays[k], zone_name, k)]

\* the candidates compare_zones_top_essays lists in combined_summary
RECURSIVE Candidates(_, _)
Candidates(zones_essays, essay_count) ==
    IF zones_essays = <<>> THEN <<>>
    ELSE LET zone_essays == Head(zones_essays)
             listed == [k \in 1..Len(zone_essays) |->
                         [essay |-> essay_count + k,
                          filename |-> zone_essays[k].filename,
                          zone |-> zone_essays[1].zone,
                          zone_rank |-> zone_essays[k].zone_rank,
                          overall_score |-> zone_essays[k].overall_score,
                          strengths |-> zone_essays[k].strengths,
                          preview |-> Slice(zone_essays[k].content, PreviewChars)]]
         IN listed \o Candidates(Tail(zones_essays), essay_count + Len(zone_essays))

\* Faulty variant: a failed request leaves an empty text
CompareFailingSilently(zones_essays, reply) ==
    IF reply.kind = "ok" THEN "grand narrative" ELSE ""

\* the text compare_zones_top_essays returns
compare_zones_top_essays(zones_essays, reply) ==
    CASE reply.kind = "ok" -> "grand narrative"
      [] reply.kind = "no_field" -> ""
      [] reply.kind = "http_error" -> "Error: " \o FailureMessage(reply.kind)
      [] OTHER -> "Error in grand comparison: " \o FailureMessage(reply.kind)

\* valid_zones: the zones whose list of top essays is not empty
ValidZones(zones_essays) ==
    SelectSeq(zones_essays, LAMBDA essays : essays # <<>>)

\* the fewest valid zones a grand comparison needs
MinValidZones == 2

-----------------------------------------------------------------------------
(* The inputs of a run                                                      *)

\* Bounds: the zones of a multi-zone run, the essay files of a whole run.
MaxZones == 2
MaxFiles == 5

FolderSeqs(n) ==
    {fs \in [1..n -> [exists : BOOLEAN, files : 0..MaxFiles]] :
        /\ \A z \in 1..n : ~fs[z].exists => fs[z].files = 0
        /\ SumSeq([z \in 1..n |-> fs[z].files]) <= MaxFiles}

\* what the user points the run at: one folder, or one folder per zone
FolderLayouts(m) ==
    IF m = "single" THEN FolderSeqs(1)
    ELSE UNION {FolderSeqs(n) : n \in 1..MaxZones}

\* the files of a folder: its f-th file is FolderFiles[f], cyclically. A file
\* that cannot be read makes read_file_content return its error text; analysis
\* is the completion the service gives when it answers the scoring request
FolderFiles ==
    <<[readable |-> TRUE,
       essay |-> Text(<<"gandhi", "NEHRU">>),        \* two inclusion keywords
       analysis |-> <<Line("Relevance", <<9>>), Line("Content", <<8>>), Line("Writing", <<9>>),
                      Line("Original", <<8>>), Line("Impact", <<8>>),
                      Line("Strengths", "vivid"), Line("Topics", "freedom struggle")>>],
      [readable |-> TRUE,
       essay |-> Text(<<"filler">>),                 \* no keyword
       analysis |-> <<Line("Relevance", <<10>>), Line("Content", <<8>>), Line("Writing", <<8>>),
                      Line("Original", <<8>>), Line("Impact", <<8>>),
                      Line("Topics", "flag hoisting")>>],
      [readable |-> TRUE,
       essay |-> Text(<<"gandhi", "Cricket">>),      \* one keyword of each list
       analysis |-> <<Line("Relevance", <<7>>), Line("Content", <<12>>),
                      Line("Original", <<7>>), Line("Impact", <<6>>)>>],
      [readable |-> TRUE,
       essay |-> Text(<<"filler", "Partition">>),    \* one inclusion keyword, past the cut
       analysis |-> <<Line("Relevance", <<0>>), Line("Content", <<9>>), Line("writing", <<>>),
                      Line("Original", <<6>>), Line("Impact", <<8>>),
                      Line("Strengths", "brief")>>],
      [readable |-> FALSE, essay |-> <<>>, analysis |-> <<>>]>>

FileAt(f) == FolderFiles[((f - 1) % Len(FolderFiles)) + 1]

\* the name the user gives zone z
ZoneName(z) == z

FailedReplies == {Reply(k, <<>>) : k \in FailureKinds}

\* the failures a request of a run meets: one for each way the code handles
\* them, a status other than 200 and an exception (connection errors, timeouts
\* and unparsable bodies all end in the same `except Exception`)
RunFailures == {Reply("http_error", <<>>), Reply("timeout", <<>>)}

\* replies to the health probe
ProbeReplies == {Reply("ok", <<>>), Reply("http_error", <<>>), Reply("conn_error", <<>>)}

\* replies to a classification request
ClassifyReplies ==
    RunFailures \cup
    {Reply("no_field", <<>>),
     Reply("ok", <<Line("TOPIC", "Independence Day"), Line("CLASSIFICATION", "YES"),
                   Line("SCORE", <<"4", ".", "5">>)>>),
     Reply("ok", <<Line("TOPIC", "Other Topic"), Line("CLASSIFICATION", "NO"),
                   Line("SCORE", <<"2">>)>>)}

\* replies to the scoring request for file f
AnalysisReplies(f) == RunFailures \cup {Reply("ok", FileAt(f).analysis)}

\* replies to a ranking or a grand comparison request
NarrativeReplies == RunFailures \cup {Reply("ok", <<>>)}

-----------------------------------------------------------------------------
(* The run: main, process_essay_folder_with_quick_analysis,                 *)
(* multi_zone_competition                                                   *)

\* how a request ended
Outcome(reply) == IF reply.kind \in FailureKinds THEN "failed" ELSE "ok"

\* an entry of the log of requests
Call(kind, z, file, wasPaced) == [kind |-> kind, zone |-> z, file |-> file, paced |-> wasPaced]

\* the latest request and what came of it
Last(kind, z, file, reply) ==
    [kind |-> kind, zone |-> z, file |-> file, outcome |-> Outcome(reply)]

\* the locals of process_essay_folder_with_quick_analysis outside a call of it
NoLocals ==
    /\ independence_day_essays' = <<>>
    /\ wrong_topic_essays' = <<>>
    /\ successful_analyses' = <<>>
    /\ idx' = 1

RunInit ==
    /\ mode \in {"single", "multi"}
    /\ folders \in FolderLayouts(mode)
    /\ pc = "main"
    /\ zone = 1
    /\ idx = 1
    /\ independence_day_essays = <<>>
    /\ wrong_topic_essays = <<>>
    /\ successful_analyses = <<>>
    /\ competition_results = [z \in 1..Len(folders) |-> <<>>]
    /\ returned = [z \in 1..Len(folders) |-> <<>>]
    /\ zone_names = <<>>
    /\ all_zone_essays = <<>>
    /\ grand_prompt = <<>>
    /\ grand_report = <<>>
    /\ calls = <<>>
    /\ paced = FALSE
    /\ last = [kind |-> "none", zone |-> 0, file |-> 0, outcome |-> "ok"]

UnitOff ==
    /\ unitPc = "off"
    /\ unitEssay = <<>>
    /\ unitReply = Reply("ok", <<>>)
    /\ unitRet = <<>>

\* main: the mode chosen; multi_zone_competition refuses fewer than 2 zones
Main ==
    /\ pc = "main"
    /\ pc' = IF mode = "multi" /\ Len(folders) < MinValidZones THEN "done" ELSE "folder"
    /\ UNCHANGED <<mode, folders, zone, idx, independence_day_essays, wrong_topic_essays,
                   successful_analyses, competition_results, returned, zone_names,
                   all_zone_essays, grand_prompt, grand_report, calls, paced, last>>
    /\ UNCHANGED unitVars

\* the loop of multi_zone_competition moves to the next zone, or leaves
NextZone ==
    IF zone < Len(folders)
    THEN zone' = zone + 1 /\ pc' = "folder"
    ELSE zone' = zone /\ pc' = "compare"

\* process_essay_folder_with_quick_analysis returns result (its locals are
\* gone); its caller goes on
ReturnFromFolder(result) ==
    /\ returned' = [returned EXCEPT ![zone] = <<result>>]
    /\ NoLocals
    /\ IF mode = "single"
       THEN pc' = "done" /\ UNCHANGED <<zone, all_zone_essays>>
       ELSE /\ all_zone_essays' =
                  Append(all_zone_essays,
                         process_single_zone_for_multi(result, ZoneName(zone)))
            /\ NextZone

\* a zone's folder is taken up: existence, health probe, listing of the files
EnterFolder ==
    /\ pc = "folder"
    /\ IF ~folders[zone].exists
       THEN /\ IF mode = "single"
               THEN /\ pc' = "done"
                    /\ zone' = zone
                    /\ returned' = [returned EXCEPT ![zone] = <<<<>>>>]
               ELSE NextZone /\ UNCHANGED returned
            /\ UNCHANGED <<zone_names, all_zone_essays, calls, last, idx,
                           independence_day_essays, wrong_topic_essays, successful_analyses>>
       ELSE \E reply \in ProbeReplies :
            /\ zone_names' = IF mode = "multi"
                             THEN Append(zone_names, ZoneName(zone)) ELSE zone_names
            /\ calls' = Append(calls, Call("health", zone, 0, paced))
            /\ last' = Last("health", zone, 0, reply)
            /\ IF ~test_ollama_connection(reply) \/ folders[zone].files = 0
               THEN ReturnFromFolder(<<>>)
               ELSE /\ pc' = "classify"
                    /\ UNCHANGED <<zone, returned, all_zone_essays, idx,
                                   independence_day_essays, wrong_topic_essays,
                                   successful_analyses>>
    /\ UNCHANGED <<mode, folders, competition_results, grand_prompt, grand_report, paced>>
    /\ UNCHANGED unitVars

\* Faulty variant: the early return is never taken
NeverEmpty(essays) == FALSE

\* `if not independence_day_essays: return []`
NoEssaysFound(essays) == essays = <<>>

\* one pass of the classification loop, and what follows the last pass
ClassifyStep ==
    /\ pc = "classify"
    /\ \E reply \in ClassifyReplies :
        LET readable == FileAt(idx).readable
            content == FileAt(idx).essay
            ret == ollama_classify_score(content, reply)
            essays == IF readable /\ ret.classification = "Yes"
                      THEN Append(independence_day_essays,
                                  [filename |-> idx, content |-> content,
                                   basic_score |-> ret.score])
                      ELSE independence_day_essays
            wrongs == IF readable /\ ret.classification = "No"
                      THEN Append(wrong_topic_essays, idx)
                      ELSE wrong_topic_essays
        IN /\ IF readable
              THEN /\ calls' = Append(calls, Call("classify", zone, idx, paced))
                   /\ last' = Last("classify", zone, idx, reply)
                   /\ paced' = TRUE
              ELSE UNCHANGED <<calls, paced, last>>
           /\ IF idx = folders[zone].files /\ NoEssaysFound(essays)
              THEN ReturnFromFolder(<<>>)
              ELSE /\ independence_day_essays' = essays
                   /\ wrong_topic_essays' = wrongs
                   /\ idx' = IF idx < folders[zone].files THEN idx + 1 ELSE 1
                   /\ pc' = IF idx < folders[zone].files THEN pc
                            ELSE IF essays = <<>> THEN "rank" ELSE "score"
                   /\ UNCHANGED <<zone, returned, all_zone_essays, successful_analyses>>
    /\ UNCHANGED <<mode, folders, competition_results, zone_names,
                   grand_prompt, grand_report>>
    /\ UNCHANGED unitVars

\* one pass of the scoring loop
ScoreStep ==
    /\ pc = "score"
    /\ LET essay_data == independence_day_essays[idx]
       IN \E reply \in AnalysisReplies(essay_data.filename) :
            /\ successful_analyses' = AnalyseInto(successful_analyses, essay_data, reply)
            /\ calls' = Append(calls, Call("score", zone, essay_data.filename, paced))
            /\ last' = Last("score", zone, essay_data.filename, reply)
    /\ paced' = TRUE
    /\ IF idx < Len(independence_day_essays)
       THEN idx' = idx + 1 /\ pc' = pc
       ELSE idx' = 1 /\ pc' = "rank"
    /\ UNCHANGED <<mode, folders, zone, independence_day_essays, wrong_topic_essays,
                   competition_results, returned, zone_names, all_zone_essays,
                   grand_prompt, grand_report>>
    /\ UNCHANGED unitVars

\* the report written for a folder: the essays by score, and whether the
\* judge's ranking follows them (`if final_ranking:`); the ranking's wording
\* and the overview's counts are left to the rendering
Report(analyses, final_ranking) ==
    [sorted_essays |-> SortedByScore(analyses), ranking_section |-> final_ranking # ""]

\* the comparative ranking call, the sort, the report, the return
RankStep ==
    /\ pc = "rank"
    /\ \E reply \in NarrativeReplies :
        LET final_ranking == simple_comparative_ranking(successful_analyses, reply)
        IN /\ calls' = Append(calls, Call("rank", zone, 0, paced))
           /\ last' = Last("rank", zone, 0, reply)
           /\ competition_results' =
                IF successful_analyses # <<>>
                THEN [competition_results EXCEPT ![zone] =
                        <<Report(successful_analyses, final_ranking)>>]
                ELSE competition_results
    /\ paced' = FALSE
    /\ ReturnFromFolder(successful_analyses)
    /\ UNCHANGED <<mode, folders, zone_names, grand_prompt, grand_report>>
    /\ UNCHANGED unitVars

\* Faulty variant: one valid zone is enough
NoZones(valid_zones) == Len(valid_zones) < 1

\* `if len(valid_zones) < 2: return`
TooFewZones(valid_zones) == Len(valid_zones) < MinValidZones

\* the end of multi_zone_competition: the grand comparison, if there is one
Compare ==
    /\ pc = "compare"
    /\ pc' = "done"
    /\ LET valid_zones == ValidZones(all_zone_essays)
       IN IF TooFewZones(valid_zones)
          THEN UNCHANGED <<grand_prompt, grand_report, calls, paced, last>>
          ELSE \E reply \in NarrativeReplies :
                LET grand_result == compare_zones_top_essays(valid_zones, reply)
                IN /\ grand_prompt' = <<Candidates(valid_zones, 0)>>
                   /\ calls' = Append(calls, Call("aggregate", 0, 0, paced))
                   /\ last' = Last("aggregate", 0, 0, reply)
                   /\ paced' = FALSE
                   /\ grand_report' =
                        <<[grand_result |-> grand_result, zones |-> Len(valid_zones),
                           total_essays |-> SumSeq([k \in 1..Len(valid_zones) |->
                                                      Len(valid_zones[k])])]>>
    /\ UNCHANGED <<mode, folders, zone, idx, independence_day_essays, wrong_topic_essays,
                   successful_analyses, competition_results, returned, zone_names,
                   all_zone_essays>>
    /\ UNCHANGED unitVars

Init == RunInit /\ UnitOff

Next == Main \/ EnterFolder \/ ClassifyStep \/ ScoreStep \/ RankStep \/ Compare

Spec == Init /\ [][Next]_vars

-----------------------------------------------------------------------------
(* One function applied to one input                                        *)

\* no run is under way
RunOff ==
    /\ mode = "none"
    /\ folders = <<>>
    /\ pc = "off"
    /\ zone = 1
    /\ idx = 1
    /\ independence_day_essays = <<>>
    /\ wrong_topic_essays = <<>>
    /\ successful_analyses = <<>>
    /\ competition_results = <<>>
    /\ returned = <<>>
    /\ zone_names = <<>>
    /\ all_zone_essays = <<>>
    /\ grand_prompt = <<>>
    /\ grand_report = <<>>
    /\ calls = <<>>
    /\ paced = FALSE
    /\ last = [kind |-> "none", zone |-> 0, file |-> 0, outcome |-> "ok"]

Essays == {Text(ws) : ws \in SeqsUpTo(Words, MaxEssayWords)}

\* completions a classification request may get
ClassifyOutputs ==
    {<<>>,
     <<Line("TOPIC", "Independence Day"), Line("CLASSIFICATION", "YES"),
       Line("SCORE", <<"4", ".", "5">>)>>,
     <<Line("TOPIC", "Other Topic"), Line("CLASSIFICATION", "NO"), Line("SCORE", <<"2">>)>>,
     <<Line("classification", "yes"), Line("score", <<"5">>)>>,
     <<Line("CLASSIFICATION", "[YES]"), Line("SCORE", <<"[", "4", "]">>)>>,
     <<Line("CLASSIFICATION", "MAYBE"), Line("CLASSIFICATION", "YES")>>,
     <<Line("CLASSIFICATION", "NO"), Line("CLASSIFICATION", "YES"),
       Line("SCORE", <<"0", ".", "5">>)>>,
     <<Line("CLASSIFICATION", "YESTERDAY"), Line("SCORE", <<"7">>)>>,
     <<Line("TOPIC", "Independence Day"), Line("SCORE", <<"5", ".", "9">>)>>,
     <<Line("CLASSIFICATION", "YES"), Line("SCORE", <<"x">>), Line("SCORE", <<"1", "0">>)>>,
     <<Line("CLASSIFICATION", "NO"), Line("SCORE", <<"3", ".">>)>>}

UnitClassifyReplies ==
    FailedReplies \cup {Reply("no_field", <<>>)} \cup {Reply("ok", o) : o \in ClassifyOutputs}

ClassifyInit ==
    /\ RunOff
    /\ unitPc = "ready"
    /\ unitEssay \in Essays
    /\ unitReply \in UnitClassifyReplies
    /\ unitRet = <<>>

\* ollama_classify_score(essay): the request sent, the reply, the return
ClassifyUnit ==
    /\ unitPc = "ready"
    /\ unitPc' = "done"
    /\ unitRet' = <<[prompt |-> ClassifyPrompt(unitEssay),
                     ret |-> ollama_classify_score(unitEssay, unitReply)]>>
    /\ UNCHANGED <<unitEssay, unitReply>>
    /\ UNCHANGED runVars

ClassifySpec == ClassifyInit /\ [][ClassifyUnit]_vars

\* Bound: the largest rating a scoring completion names.
MaxRating == 11

\* what a completion holds for a rating label: -2 for no such label, -1 for
\* the label followed by words, n >= 0 for the label followed by the digits of n
RatingChoices == (-2)..MaxRating

RatingLabels == <<"Relevance", "Content", "Writing", "Original", "Impact">>

\* the completion that gives label k what choice[k] says
RECURSIVE RatingLines(_, _)
RatingLines(choice, k) ==
    IF k > Len(RatingLabels) THEN <<>>
    ELSE (CASE choice[k] = -2 -> <<>>
            [] choice[k] = -1 -> <<Line(RatingLabels[k], <<>>)>>
            [] OTHER -> <<Line(RatingLabels[k], <<choice[k]>>)>>)
         \o RatingLines(choice, k + 1)

\* every multiset of five choices, laid on the five labels in every rotation
RatingChoiceSeqs ==
    LET n == Len(RatingLabels)
        sorted == {c \in [1..n -> RatingChoices] : \A k \in 1..(n - 1) : c[k] <= c[k + 1]}
    IN {[k \in 1..n |-> c[((k + r) % n) + 1]] : c \in sorted, r \in 0..(n - 1)}

AnalysisOutputs == {RatingLines(choice, 1) : choice \in RatingChoiceSeqs}

UnitAnalysisReplies ==
    FailedReplies \cup {Reply("no_field", <<>>)} \cup {Reply("ok", o) : o \in AnalysisOutputs}

AnalysisInit ==
    /\ RunOff
    /\ unitPc = "ready"
    /\ unitEssay = Text(<<"gandhi", "NEHRU">>)
    /\ unitReply \in UnitAnalysisReplies
    /\ unitRet = <<>>

\* the scoring of one essay: quick_essay_analysis and the caller's default
AnalysisUnit ==
    /\ unitPc = "ready"
    /\ unitPc' = "done"
    /\ unitRet' = AnalyseInto(<<>>, [filename |-> 1, content |-> unitEssay], unitReply)
    /\ UNCHANGED <<unitEssay, unitReply>>
    /\ UNCHANGED runVars

AnalysisSpec == AnalysisInit /\ [][AnalysisUnit]_vars

-----------------------------------------------------------------------------
(* Properties of ollama_classify_score (ClassifySpec)                       *)

\* the keywords of a list that occur in the whole essay, whatever their case
KeywordsPresent(keywords, essay) ==
    {k \in keywords : \E i \in 1..Len(essay) : Lower(essay[i].w) = k}

InclusionCount(essay) == Cardinality(KeywordsPresent(independence_keywords, essay))
ExclusionCount(essay) == Cardinality(KeywordsPresent(other_keywords, essay))

\* the classification call was answered (status 200, a body that parses)
ClassifyAnswered == unitPc = "done" /\ unitReply.kind \in {"ok", "no_field"}

C3_ErrorOnEveryFailure ==
    (unitPc = "done" /\ unitReply.kind \in FailureKinds \cup {"no_field"}) =>
        /\ unitRet[1].ret.classification = "Error"
        /\ unitRet[1].ret.message # ""

-----------------------------------------------------------------------------
(* Properties of the scoring of one essay (AnalysisSpec)                    *)

\* the number a completion gives after a label: <<n>>, or <<>> when the label
\* is missing or is not followed by digits
RatingGiven(output, label) ==
    LET at == {i \in 1..Len(output) :
                 output[i].label = label /\ Len(output[i].value) = 1}
    IN IF at = {} THEN <<>>
       ELSE output[CHOOSE i \in at : \A j \in at : i <= j].value

\* the dimension a report must hold for what the completion gave
RatingExpected(given) ==
    IF given = <<>> THEN 6
    ELSE IF given[1] < 1 THEN 1
    ELSE IF given[1] > 10 THEN 10
    ELSE given[1]

Dimensions(analysis) ==
    <<analysis.relevance, analysis.content, analysis.writing,
      analysis.original, analysis.impact>>

\* C5: every report attached to an item (parsed or the neutral default) has the
\* five dimensions relevance, content, writing, original, impact, each an
\* integer in 1..10 (a parsed value clamped, a missing label read as 6), and an
\* aggregate equal to their sum divided by 5 (in tenths: twice the sum).
C5_FiveDimensionsAndMean ==
    unitPc = "done" =>
        /\ Len(unitRet) = 1
        /\ LET analysis == unitRet[1].analysis
               dims == Dimensions(analysis)
           IN /\ {"relevance", "content", "writing", "original", "impact"}
                    \subseteq DOMAIN analysis
              /\ \A k \in 1..5 : dims[k] \in 1..10
              /\ analysis.overall_score = 2 * SumSeq(dims)
              /\ unitReply.kind \in {"ok", "no_field"} =>
                    \A k \in 1..5 :
                        dims[k] = RatingExpected(
                                    RatingGiven(CompletionText(unitReply), RatingLabels[k]))

\* a completion without the Writing line, with a rating above 10 and a rating
\* of 0: writing is 6, the ratings are 10 and 1, and all count in the mean
C5_Witness ==
    /\ unitPc = "done"
    /\ unitReply.kind = "ok"
    /\ RatingGiven(unitReply.output, "Writing") = <<>>
    /\ RatingGiven(unitReply.output, "Content") = <<MaxRating>>
    /\ RatingGiven(unitReply.output, "Relevance") = <<7>>
    /\ RatingGiven(unitReply.output, "Original") = <<0>>
    /\ RatingGiven(unitReply.output, "Impact") = <<7>>
    /\ Len(unitRet) = 1
    /\ Dimensions(unitRet[1].analysis) = <<7, 10, 6, 1, 7>>
    /\ unitRet[1].analysis.overall_score = 62

\* C6: the grade of every report is the step function of its aggregate:
\* A+ from 9.0, A from 8.0, B+ from 7.0, B from 6.0, C+ from 5.0, C below;
\* one grade for each aggregate, the neutral default (6.0, B) included.
C6_GradeSteps ==
    unitPc = "done" =>
        /\ Len(unitRet) = 1
        /\ LET aggregate == unitRet[1].analysis.overall_score
               grade == unitRet[1].analysis.grade
           IN /\ grade \in {"A+", "A", "B+", "B", "C+", "C"}
              /\ grade = "A+" <=> aggregate >= 90
              /\ grade = "A" <=> (aggregate >= 80 /\ aggregate < 90)
              /\ grade = "B+" <=> (aggregate >= 70 /\ aggregate < 80)
              /\ grade = "B" <=> (aggregate >= 60 /\ aggregate < 70)
              /\ grade = "C+" <=> (aggregate >= 50 /\ aggregate < 60)
              /\ grade = "C" <=> aggregate < 50
              /\ unitReply.kind \in FailureKinds => (aggregate = 60 /\ grade = "B")

\* a parsed report whose aggregate is exactly 9.0 is graded A+
C6_Witness ==
    /\ unitPc = "done"
    /\ unitReply.kind = "ok"
    /\ Len(unitRet) = 1
    /\ unitRet[1].analysis.overall_score = 90
    /\ unitRet[1].analysis.grade = "A+"

-----------------------------------------------------------------------------
(* Properties of a run (Spec)                                               *)

Zones == 1..Len(folders)

Filenames(essays) == [k \in 1..Len(essays) |-> essays[k].filename]

\* the requests of the given kinds sent for zone z
CallsOf(kinds, z) == {k \in 1..Len(calls) : calls[k].kind \in kinds /\ calls[k].zone = z}

\* the report an item gets when its scoring call fails
IsNeutralDefault(analysis) ==
    /\ Dimensions(analysis) = <<6, 6, 6, 6, 6>>
    /\ analysis.overall_score = 60
    /\ analysis.grade = "B"

\* how often the item named filename appears in a ranking
Occurrences(ranking, filename) ==
    Cardinality({k \in 1..Len(ranking) : ranking[k].filename = filename})

\* C1: an Included item whose scoring call fails gets the neutral default
\* report (all dimensions 6, aggregate 6.0, grade B) and appears exactly once
\* in the zone's ranked output; no failure removes an item from the batch or
\* stops the scoring of the items that follow.
C1_FailedScoringKeepsItem ==
    /\ []( \* the item just scored without success is the last of the batch,
           \* with the default
           /\ (last.kind = "score" /\ last.outcome = "failed") =>
                /\ Len(successful_analyses) > 0
                /\ successful_analyses[Len(successful_analyses)].filename = last.file
                /\ IsNeutralDefault(successful_analyses[Len(successful_analyses)].analysis)
           \* whatever failed before, the batch holds every item scored so far
           /\ pc = "score" =>
                /\ idx <= Len(independence_day_essays)
                /\ Filenames(successful_analyses)
                     = SubSeq(Filenames(independence_day_essays), 1, idx - 1)
           /\ pc = "rank" =>
                Filenames(successful_analyses) = Filenames(independence_day_essays))
    \* scoring another item changes none of the batch
    /\ [][ pc = "score" =>
                SubSeq(successful_analyses', 1, Len(successful_analyses))
                    = successful_analyses ]_vars
    \* the ranked output written for the zone lists each item of the batch once
    /\ [][ pc = "rank" =>
                /\ returned'[zone] = <<successful_analyses>>
                /\ competition_results'[zone] # <<>>
                /\ LET ranking == competition_results'[zone][1].sorted_essays
                   IN /\ Len(ranking) = Len(successful_analyses)
                      /\ \A k \in 1..Len(successful_analyses) :
                            /\ Occurrences(ranking, successful_analyses[k].filename) = 1
                            /\ \E r \in 1..Len(ranking) :
                                    ranking[r] = successful_analyses[k] ]_vars

\* the first file's scoring failed, the third file's scoring succeeded, and
\* the ranking written holds both: file 3 with its parsed 7.2, file 1 with
\* the default
C1_Witness ==
    /\ last.kind = "rank"
    /\ competition_results[last.zone] # <<>>
    /\ LET ranking == competition_results[last.zone][1].sorted_essays
       IN /\ Len(ranking) = 2
          /\ ranking[1].filename = 3
          /\ ranking[1].analysis.overall_score = 72
          /\ ranking[2].filename = 1
          /\ IsNeutralDefault(ranking[2].analysis)
          /\ ranking[2].analysis.strengths = "Independence Day themed essay"

\* the place of the item named filename in a list of scored essays, 0 if absent
PlaceIn(essays, filename) ==
    IF \E k \in 1..Len(essays) : essays[k].filename = filename
    THEN CHOOSE k \in 1..Len(essays) : essays[k].filename = filename
    ELSE 0

\* scores non-increasing, equal scores in the order of the input
RankedStably(scores, names, input) ==
    \A i, j \in 1..Len(scores) :
        i < j =>
            /\ scores[i] >= scores[j]
            /\ scores[i] = scores[j] => PlaceIn(input, names[i]) < PlaceIn(input, names[j])

NonEmptyZones == {z \in Zones : returned[z] # <<>> /\ returned[z][1] # <<>>}

AggregationCalls == {k \in 1..Len(calls) : calls[k].kind = "aggregate"}

\* the results computed zone by zone
ZoneResults == <<competition_results, returned, all_zone_essays>>

\* C7: in a multi-zone run where fewer than 2 zones end with a non-empty top-K,
\* no aggregation call is issued and no cross-zone narrative is produced; the
\* run stops at that phase only, and the per-zone results are kept.
C7_InsufficientZones ==
    /\ [](  (mode = "multi" /\ pc = "done" /\ Cardinality(NonEmptyZones) < 2) =>
                /\ AggregationCalls = {}
                /\ grand_prompt = <<>>
                /\ grand_report = <<>>
                /\ \A z \in NonEmptyZones : competition_results[z] # <<>>)
    /\ [][ (pc = "compare" /\ Cardinality(NonEmptyZones) < 2) =>
                /\ pc' = "done"
                /\ calls' = calls
                /\ ZoneResults' = ZoneResults ]_vars

\* two zones were processed, only the first has a ranking: the run is over
\* with that ranking written and without a request for a grand comparison
C7_Witness ==
    /\ mode = "multi"
    /\ pc = "done"
    /\ Len(folders) = 2
    /\ returned[2] = <<<<>>>>
    /\ NonEmptyZones = {1}
    /\ competition_results[1] # <<>>
    /\ Len(competition_results[1][1].sorted_essays) = 2
    /\ CallsOf({"classify"}, 2) # {}
    /\ AggregationCalls = {}
    /\ grand_report = <<>>

\* the candidates of zones z..Len(folders), numbered from essay_count + 1: of
\* each zone that has a ranking, its first min(3, n) entries, each with the
\* zone's name and its position in the ranking
RECURSIVE ListedFrom(_, _)
ListedFrom(z, essay_count) ==
    IF z > Len(folders) THEN <<>>
    ELSE IF competition_results[z] = <<>> THEN ListedFrom(z + 1, essay_count)
    ELSE LET ranking == competition_results[z][1].sorted_essays
             n == IF Len(ranking) < 3 THEN Len(ranking) ELSE 3
         IN [k \in 1..n |->
                [essay |-> essay_count + k,
                 filename |-> ranking[k].filename,
                 zone |-> ZoneName(z),
                 zone_rank |-> k,
                 overall_score |-> ranking[k].analysis.overall_score,
                 strengths |-> ranking[k].analysis.strengths,
                 preview |-> Slice(ranking[k].content, PreviewChars)]]
            \o ListedFrom(z + 1, essay_count + n)

PlaceholderTexts == {"Error: HTTP 500", "Error in grand comparison: str(e)"}

\* C9: when the aggregation call fails (connection error, timeout, non-OK
\* status), the aggregation returns an error-text placeholder, which is
\* written as the grand result, and every zone's ranking and reports stay as
\* they were before the aggregation phase.
C9_AggregationFailureKeepsZones ==
    /\ []( (last.kind = "aggregate" /\ last.outcome = "failed") =>
                /\ pc = "done"
                /\ grand_report # <<>>
                /\ grand_report[1].grand_result \in PlaceholderTexts
                /\ \A z \in NonEmptyZones : competition_results[z] # <<>>)
    /\ [][ (last'.kind = "aggregate" /\ last'.outcome = "failed") =>
                ZoneResults' = ZoneResults ]_vars

\* the grand comparison of two ranked zones was answered with a status other
\* than 200: the grand result is the placeholder, the two rankings are there
C9_Witness ==
    /\ last.kind = "aggregate"
    /\ last.outcome = "failed"
    /\ grand_report # <<>>
    /\ grand_report[1].grand_result = "Error: HTTP 500"
    /\ grand_report[1].zones = 2
    /\ competition_results[1] # <<>>
    /\ competition_results[2] # <<>>

\* C10: a zone none of whose items is classified Included issues no scoring
\* call and no ranking call and returns an empty result; in a multi-zone run
\* the zones after it are still processed.
C10_EmptyZoneSkipsScoring ==
    /\ []( /\ pc \in {"score", "rank"} => independence_day_essays # <<>>
           /\ \A z \in Zones :
                returned[z] = <<<<>>>> =>
                    /\ CallsOf({"score", "rank"}, z) = {}
                    /\ competition_results[z] = <<>>
           /\ (mode = "multi" /\ pc = "done" /\ Len(folders) >= 2) =>
                \A z \in Zones : folders[z].exists => CallsOf({"health"}, z) # {})
    \* classification is left either for the scoring of a non-empty batch or
    \* with an empty result, after which the caller goes on
    /\ [][ (pc = "classify" /\ pc' # "classify") =>
                \/ pc' = "score" /\ independence_day_essays' # <<>>
                \/ /\ (independence_day_essays = <<>>)
                   /\ returned'[zone] = <<<<>>>>
                   /\ calls' \in {calls, Append(calls, Call("classify", zone, idx, paced))}
                   /\ mode = "single" => pc' = "done"
                   /\ mode = "multi" =>
                        /\ all_zone_essays' = Append(all_zone_essays, <<>>)
                        /\ IF zone < Len(folders)
                           THEN pc' = "folder" /\ zone' = zone + 1
                           ELSE pc' = "compare" ]_vars

\* zone 1 had its items classified, none Included: it returned empty without
\* a scoring or ranking call, and zone 2 went on to be scored and ranked
C10_Witness ==
    /\ mode = "multi"
    /\ pc = "done"
    /\ Len(folders) = 2
    /\ Cardinality(CallsOf({"classify"}, 1)) >= 2
    /\ returned[1] = <<<<>>>>
    /\ CallsOf({"score", "rank"}, 1) = {}
    /\ CallsOf({"score"}, 2) # {}
    /\ competition_results[2] # <<>>

-----------------------------------------------------------------------------
(* The order and the pacing of the requests of a run (Spec)                 *)

\* the kinds of request that go to the generate endpoint
GenerateKinds == {"classify", "score", "rank", "aggregate"}

GenerateCalls == {k \in 1..Len(calls) : calls[k].kind \in GenerateKinds}

\* C11: between every two consecutive generate calls of a run, whatever their
\* kind and whether or not they belong to the same zone, the pacing delay
\* elapses before the later call is issued.
C11_PacedBetweenCalls ==
    \A k \in GenerateCalls :
        (\E j \in GenerateCalls : j < k) => calls[k].paced

\* the files of zone z that can be read, among its first n
ReadableFiles(n) == {f \in 1..n : FileAt(f).readable}

\* the files of zone z for which a request of the given kind was sent
FilesOf(kind, z) == {calls[k].file : k \in CallsOf({kind}, z)}

NamedIn(essays) == {essays[k].filename : k \in 1..Len(essays)}

\* the list holds no item twice
NoRepeat(names) == \A i, j \in 1..Len(names) : i # j => names[i] # names[j]

\* the folder function is at work on the current zone
InsideFolder == pc \in {"classify", "score", "rank"}

\* C12: each readable item is sent for classification exactly once; a scoring
\* call is issued exactly once for each item whose verdict is Included and
\* never for an item whose verdict is Excluded or Error; every scoring call of
\* a zone comes after all its classification calls; no call is issued again.
C12_EachCallOnce ==
    \* no request is sent twice, whether it failed or not
    /\ \A i, j \in 1..Len(calls) :
         i # j => <<calls[i].kind, calls[i].zone, calls[i].file>>
                    # <<calls[j].kind, calls[j].zone, calls[j].file>>
    /\ \A z \in Zones :
         /\ FilesOf("classify", z) \subseteq ReadableFiles(folders[z].files)
         /\ FilesOf("score", z) \subseteq FilesOf("classify", z)
         /\ \A i \in CallsOf({"classify"}, z), j \in CallsOf({"score"}, z) : i < j
         /\ (returned[z] # <<>> /\ FilesOf("classify", z) # {}) =>
                FilesOf("classify", z) = ReadableFiles(folders[z].files)
         /\ returned[z] # <<>> =>
                /\ FilesOf("score", z) = NamedIn(returned[z][1])
                /\ NoRepeat(Filenames(returned[z][1]))
    \* while a zone is classified, the items sent are the readable ones so far
    /\ pc = "classify" =>
         /\ FilesOf("classify", zone) = ReadableFiles(idx - 1)
         /\ FilesOf("score", zone) = {}
    /\ pc \in {"score", "rank"} =>
         FilesOf("classify", zone) = ReadableFiles(folders[zone].files)
    \* the items scored are the Included ones, in their order
    /\ pc = "score" =>
         FilesOf("score", zone)
            = NamedIn(SubSeq(independence_day_essays, 1, idx - 1))
    /\ pc = "rank" => FilesOf("score", zone) = NamedIn(independence_day_essays)
    \* Included and Excluded are verdicts of classified items, and exclude
    \* each other; an item whose classification failed (Error) is in neither
    /\ InsideFolder =>
         /\ NoRepeat(Filenames(independence_day_essays))
         /\ NoRepeat(wrong_topic_essays)
         /\ NamedIn(independence_day_essays) \subseteq FilesOf("classify", zone)
         /\ \A k \in 1..Len(wrong_topic_essays) :
               /\ wrong_topic_essays[k] \in FilesOf("classify", zone)
               /\ wrong_topic_essays[k] \notin NamedIn(independence_day_essays)
         /\ (last.kind = "classify" /\ last.zone = zone /\ last.outcome = "failed") =>
               /\ last.file \notin NamedIn(independence_day_essays)
               /\ \A k \in 1..Len(wrong_topic_essays) : wrong_topic_essays[k] # last.file

\* a folder of five files: the fifth cannot be read, the classification of
\* the first and the fourth failed, the second is Excluded, the third is
\* Included and is the only one scored
C12_Witness ==
    /\ pc = "rank"
    /\ folders[zone].files = 5
    /\ FilesOf("classify", zone) = {1, 2, 3, 4}
    /\ Filenames(independence_day_essays) = <<3>>
    /\ wrong_topic_essays = <<2>>
    /\ FilesOf("score", zone) = {3}
    /\ last.kind = "score"
    /\ last.outcome = "failed"

HealthCalls == {k \in 1..Len(calls) : calls[k].kind = "health"}

\* C13: the health probe is issued exactly once per run, before the first
\* generate call, in single-zone and in multi-zone mode alike; it is not
\* repeated per zone.
C13_HealthProbeOnce ==
    /\ Cardinality(HealthCalls) <= 1
    /\ \A k \in GenerateCalls : \E h \in HealthCalls : h < k

\* the SCORE lines of a completion, whatever the case of the label
ScoreLines(output) ==
    {i \in 1..Len(output) : output[i].label \in {"SCORE", "score"}}

\* C14: for every classification call that succeeds, the advisory score
\* returned lies in [1.0, 5.0] (in tenths, 10..50), and it is 3.0 when the
\* completion has no SCORE field.
C14_ScoreInRange ==
    ClassifyAnswered =>
        LET score == unitRet[1].ret.score
        IN /\ Len(score) = 1
           /\ score[1] >= 10
           /\ score[1] <= 50
           /\ ScoreLines(CompletionText(unitReply)) = {} => score[1] = 30

====
